---- MODULE Spec2Model ----
(***************************************************************************)
(* Simd<Element, LANES> of crates/core_simd/src/vector.rs: the array       *)
(* conversions and the masked, bounds-checked gather and scatter engine.    *)
(*                                                                          *)
(* Memory is the byte-addressed space of a machine whose usize has PtrBits  *)
(* bits, held as cells of ElemSize bytes.  A behaviour is one call (and,    *)
(* after scatter_select, the gather_select that reads the slice back) on    *)
(* arguments drawn by Init.                                                 *)
(***************************************************************************)
EXTENDS Integers, Sequences, FiniteSets, TLC

\* ---------------------------------------------------------------- bounds
LANES == 2
MaxLen == 2
MaxVal == 1
PtrBits == 4
\* size_of::<Element>() for Element = u16
ElemSize == 2

VARIABLES slice, mem, arr, vals, or, mask, idxs, pc, op, ip,
          emask, base_ptr, ptrs, result, out, derefs, ub, events

vars == <<slice, mem, arr, vals, or, mask, idxs, pc, op, ip,
          emask, base_ptr, ptrs, result, out, derefs, ub, events>>

\* ------------------------------------------------------- the machine
Lanes == 0 .. (LANES - 1)
Elem == 0 .. MaxVal
UsizeMod == 2 ^ PtrBits
UsizeMax == UsizeMod - 1
IsizeMax == 2 ^ (PtrBits - 1) - 1
Cells == 0 .. ((UsizeMod \div ElemSize) - 1)
NoVal == <<>>

\* The first index whose byte offset wraps to 0, and the index candidates:
\* the small ones (in bounds or past the end, by the slice's length), the
\* wrapping one and the largest representable one.
WrapIdx == UsizeMod \div ElemSize
Idxs == (0 .. MaxLen) \cup {WrapIdx, UsizeMax}

\* The caller's slice sits at address ElemSize; a slice never spans more
\* than isize::MAX bytes nor wraps around the address space.
SliceBase == ElemSize
ValidSlice(s) ==
    /\ s.len * ElemSize <= IsizeMax
    /\ s.base + s.len * ElemSize <= UsizeMod
InitMem == [c \in Cells |-> 10 + c]

len(s) == s.len
as_ptr(s) == s.base
as_mut_ptr(s) == s.base
SliceAddrs(s) == {s.base + k * ElemSize : k \in 0 .. (s.len - 1)}
Load(m, addr) == m[addr \div ElemSize]
Store(m, addr, v) == [m EXCEPT ![addr \div ElemSize] = v]
\* slice[k]
SliceAt(m, s, k) == Load(m, s.base + k * ElemSize)

\* ------------------------------------------------------- Vector Core
\* pub struct Simd<Element, const LANES: usize>([Element; LANES])
Simd(array) == <<array>>
Lane(v, i) == v[1][i]

splat(value) == Simd([i \in Lanes |-> value])

from_array(array) == Simd(array)

to_array_rev(self) == [i \in Lanes |-> self[1][(LANES - 1) - i]]
to_array(self) == self[1]

Element_default == 0

\* ------------------------------------------- Mask and pointer vectors
Mask_splat(b) == [i \in Lanes |-> b]
lanes_lt(a, b) == [i \in Lanes |-> Lane(a, i) < Lane(b, i)]
mask_and(a, b) == [i \in Lanes |-> a[i] /\ b[i]]
to_int(m) == Simd([i \in Lanes |-> IF m[i] THEN -1 ELSE 0])

SimdPtr_splat(p) == [i \in Lanes |-> p]
wrapping_add(p, addend) ==
    [i \in Lanes |-> (p[i] + ((Lane(addend, i) * ElemSize) % UsizeMod)) % UsizeMod]

\* ------------------------------------------------------- intrinsics
simd_gather(m, orv, p, k) ==
    Simd([i \in Lanes |-> IF Lane(k, i) # 0 THEN Load(m, p[i]) ELSE Lane(orv, i)])

RECURSIVE ScatterFrom(_, _, _, _, _)
ScatterFrom(m, v, p, k, i) ==
    IF i >= LANES THEN m
    ELSE ScatterFrom(IF Lane(k, i) # 0 THEN Store(m, p[i], Lane(v, i)) ELSE m,
                     v, p, k, i + 1)
simd_scatter(m, v, p, k) == ScatterFrom(m, v, p, k, 0)

\* The addresses a masked load or store dereferences.
Derefs(p, k) == {p[i] : i \in {j \in Lanes : Lane(k, j) # 0}}

\* ---------------------------------------------------- Gather Engine
gather_select_mask_nobounds(s, m, ix) == to_int(m)
gather_select_mask_nomask(s, m, ix) == to_int(lanes_lt(ix, splat(len(s))))
gather_select_mask_le(s, m, ix) == to_int(mask_and(m, lanes_lt(ix, splat(len(s) + 1))))
gather_select_mask(s, m, ix) == to_int(mask_and(m, lanes_lt(ix, splat(len(s)))))

gather_select_ptrs(s, ix) == wrapping_add(SimdPtr_splat(as_ptr(s)), ix)

gather_select(m, s, k, ix, orv) ==
    simd_gather(m, orv, gather_select_ptrs(s, ix), gather_select_mask(s, k, ix))

gather_or(m, s, ix, orv) == gather_select(m, s, Mask_splat(TRUE), ix, orv)

gather_or_default(m, s, ix) == gather_or(m, s, ix, splat(Element_default))

\* --------------------------------------------------------------- Init
Init ==
    /\ slice \in {s \in [base : {SliceBase}, len : 0 .. MaxLen] : ValidSlice(s)}
    /\ mem = InitMem
    /\ arr \in [Lanes -> Elem]
    /\ vals = from_array(arr)
    /\ or = from_array(arr)
    /\ mask \in [Lanes -> BOOLEAN]
    /\ idxs \in {from_array(a) : a \in [Lanes -> Idxs]}
    /\ pc = "ready"
    /\ op = "none"
    /\ ip = 0
    /\ emask = NoVal
    /\ base_ptr = NoVal
    /\ ptrs = NoVal
    /\ result = NoVal
    /\ out = NoVal
    /\ derefs = {}
    /\ ub = FALSE
    /\ events = <<>>

\* ------------------------------------------------------------ actions
ToArray ==
    /\ pc = "ready"
    /\ out' = to_array(vals)
    /\ op' = "to_array"
    /\ pc' = "done"
    /\ UNCHANGED <<slice, mem, arr, vals, or, mask, idxs, ip, emask, base_ptr,
                   ptrs, result, derefs, ub, events>>

\* gather_select(slice, k, idxs, orv), entered as `name`, returns `res`;
\* emask, ptrs and derefs keep what its body computed and dereferenced.
GatherDone(name, k, orv, res) ==
    /\ op' = name
    /\ mask' = k
    /\ or' = orv
    /\ emask' = gather_select_mask(slice, k, idxs)
    /\ base_ptr' = SimdPtr_splat(as_ptr(slice))
    /\ ptrs' = gather_select_ptrs(slice, idxs)
    /\ result' = res
    /\ derefs' = Derefs(ptrs', emask')
    /\ ub' = ~(derefs' \subseteq SliceAddrs(slice))
    /\ events' = <<"len", "as_ptr", "load">>
    /\ pc' = "done"
    /\ UNCHANGED <<slice, mem, arr, vals, idxs, ip, out>>

GatherSelect ==
    /\ pc = "ready"
    /\ GatherDone("gather_select", mask, or,
                  gather_select(mem, slice, mask, idxs, or))

GatherOr ==
    /\ pc = "ready"
    /\ GatherDone("gather_or", Mask_splat(TRUE), or,
                  gather_or(mem, slice, idxs, or))

GatherOrDefault ==
    /\ pc = "ready"
    /\ GatherDone("gather_or_default", Mask_splat(TRUE), splat(Element_default),
                  gather_or_default(mem, slice, idxs))

\* --------------------------------------------------- Scatter Engine
scatter_select_mask_nobounds(s, m, ix) == to_int(m)
scatter_select_mask_nomask(s, m, ix) == to_int(lanes_lt(ix, splat(len(s))))
scatter_select_mask_le(s, m, ix) == to_int(mask_and(m, lanes_lt(ix, splat(len(s) + 1))))
scatter_select_mask_short(s, m, ix) ==
    to_int(mask_and(m, lanes_lt(ix, splat(IF len(s) = 0 THEN 0 ELSE len(s) - 1))))
scatter_select_mask(s, m, ix) == to_int(mask_and(m, lanes_lt(ix, splat(len(s)))))

scatter_select_ptrs_noadd(b, ix) == b
scatter_select_ptrs(b, ix) == wrapping_add(b, ix)

\* The statements of scatter_select's body, in program order.
scatter_select_body_ptr_first == <<"base_ptr", "mask", "ptrs", "store">>
scatter_select_body == <<"mask", "base_ptr", "ptrs", "store">>

\* Entering scatter_select(self = vals, slice, k, idxs) as `name`.
ScatterCall(name, k) ==
    /\ pc = "ready"
    /\ op' = name
    /\ mask' = k
    /\ pc' = "scatter_select"
    /\ ip' = 0
    /\ UNCHANGED <<slice, mem, arr, vals, or, idxs, emask, base_ptr, ptrs,
                   result, out, derefs, ub, events>>

ScatterSelect == ScatterCall("scatter_select", mask)
Scatter == ScatterCall("scatter", Mask_splat(TRUE))

\* The next statement of the body is `stmt`; control moves past it.
ScatterStep(stmt) ==
    /\ pc = "scatter_select"
    /\ ip < Len(scatter_select_body)
    /\ scatter_select_body[ip + 1] = stmt
    /\ ip' = ip + 1
    /\ pc' = IF ip + 1 = Len(scatter_select_body) THEN "done" ELSE pc

\* let mask = (mask & idxs.lanes_lt(Simd::splat(slice.len()))).to_int();
ScatterMask ==
    /\ ScatterStep("mask")
    /\ emask' = scatter_select_mask(slice, mask, idxs)
    /\ events' = Append(events, "len")
    /\ UNCHANGED <<slice, mem, arr, vals, or, mask, idxs, op, base_ptr, ptrs,
                   result, out, derefs, ub>>

\* let base_ptr = SimdMutPtr::splat(slice.as_mut_ptr());
ScatterBasePtr ==
    /\ ScatterStep("base_ptr")
    /\ base_ptr' = SimdPtr_splat(as_mut_ptr(slice))
    /\ events' = Append(events, "as_mut_ptr")
    /\ UNCHANGED <<slice, mem, arr, vals, or, mask, idxs, op, emask, ptrs,
                   result, out, derefs, ub>>

\* let ptrs = base_ptr.wrapping_add(idxs);
ScatterPtrs ==
    /\ ScatterStep("ptrs")
    /\ ptrs' = scatter_select_ptrs(base_ptr, idxs)
    /\ UNCHANGED <<slice, mem, arr, vals, or, mask, idxs, op, emask, base_ptr,
                   result, out, derefs, ub, events>>

\* crate::intrinsics::simd_scatter(self, ptrs, mask)
ScatterStore ==
    /\ ScatterStep("store")
    /\ mem' = simd_scatter(mem, vals, ptrs, emask)
    /\ derefs' = Derefs(ptrs, emask)
    /\ ub' = ~(derefs' \subseteq SliceAddrs(slice))
    /\ events' = Append(events, "store")
    /\ UNCHANGED <<slice, arr, vals, or, mask, idxs, op, emask, base_ptr, ptrs,
                   result, out>>

\* After v.scatter_select(s, mask, idxs): gather_select(s, mask, idxs, or)
\* on the same slice, with a fallback vector of the caller's choice.
GatherBack ==
    /\ pc = "done"
    /\ op = "scatter_select"
    /\ \E e \in Elem :
         GatherDone("gather_back", mask, splat(e),
                    gather_select(mem, slice, mask, idxs, splat(e)))

Next ==
    \/ ToArray
    \/ GatherSelect
    \/ GatherOr
    \/ GatherOrDefault
    \/ ScatterSelect
    \/ Scatter
    \/ ScatterMask
    \/ ScatterBasePtr
    \/ ScatterPtrs
    \/ ScatterStore
    \/ GatherBack

Spec == Init /\ [][Next]_vars

\* ------------------------------------------------------------- claims
GatherOps == {"gather_or", "gather_or_default", "gather_select", "gather_back"}
ScatterOps == {"scatter", "scatter_select"}
SelectOps == {"gather_select", "scatter_select", "gather_back"}

InBounds(i) == Lane(idxs, i) < slice.len
\* A lane survives when its index is in bounds and, in a _select call, its
\* mask bit is true.
Surviving(i) == InBounds(i) /\ (op \in SelectOps => mask[i])
\* The surviving lanes that target slice index k.
Targeting(k) == {i \in Lanes : Surviving(i) /\ Lane(idxs, i) = k}
MaxOf(S) == CHOOSE x \in S : \A y \in S : y <= x
SliceCells == {a \div ElemSize : a \in SliceAddrs(slice)}
ScatterDone == pc = "done" /\ op \in ScatterOps

\* C1: gather_or(s, idxs, or) returns, in every lane i, s[idxs[i]] when
\* idxs[i] < len(s) and or[i] when idxs[i] >= len(s), the empty slice included.
C1_GatherOrBounds ==
    (pc = "done" /\ op = "gather_or") =>
        \A i \in Lanes :
            Lane(result, i) = IF InBounds(i)
                              THEN SliceAt(mem, slice, Lane(idxs, i))
                              ELSE Lane(or, i)

C1_Witness ==
    /\ pc = "done"
    /\ op = "gather_or"
    /\ \E i, j \in Lanes : InBounds(i) /\ ~InBounds(j)

\* C2: gather_select yields or[i] in every lane whose mask bit is false, in
\* bounds or not; a lane yields s[idxs[i]] only when its mask bit is true and
\* idxs[i] < len(s), so every other lane yields or[i].
C2_GatherMaskDominance ==
    (pc = "done" /\ op = "gather_select") =>
        \A i \in Lanes :
            /\ ~mask[i] => Lane(result, i) = Lane(or, i)
            /\ Lane(result, i) # Lane(or, i) =>
                   /\ mask[i]
                   /\ InBounds(i)
                   /\ Lane(result, i) = SliceAt(mem, slice, Lane(idxs, i))

C2_Witness ==
    /\ pc = "done"
    /\ op = "gather_select"
    /\ \E i, j \in Lanes :
          /\ ~mask[i] /\ InBounds(i)
          /\ ~mask[j] /\ ~InBounds(j)
          /\ SliceAt(mem, slice, Lane(idxs, i)) # Lane(or, i)

\* C3: after scatter or scatter_select, a slice index k that two or more
\* surviving lanes target holds the value of the highest-numbered of them.
C3_ScatterLastLaneWins ==
    ScatterDone =>
        \A k \in 0 .. (slice.len - 1) :
            Cardinality(Targeting(k)) >= 2 =>
                SliceAt(mem, slice, k) = Lane(vals, MaxOf(Targeting(k)))

C3_Witness ==
    /\ ScatterDone
    /\ \E k \in 0 .. (slice.len - 1) :
          /\ Cardinality(Targeting(k)) >= 2
          /\ \E i \in Targeting(k) : Lane(vals, i) # Lane(vals, MaxOf(Targeting(k)))

\* C4: during scatter and scatter_select the slice keeps its place and length,
\* a cell changes only if a lane with idxs[i] < len(slice) addresses it, no
\* cell outside the slice changes, and nothing changes when every lane is out
\* of bounds.
C4_Frame ==
    op' \in ScatterOps =>
        /\ slice' = slice
        /\ \A c \in Cells :
              mem'[c] # mem[c] =>
                  \E i \in Lanes :
                      /\ Lane(idxs, i) < slice.len
                      /\ c = (slice.base \div ElemSize) + Lane(idxs, i)
        /\ \A c \in Cells \ SliceCells : mem'[c] = mem[c]
        /\ (\A i \in Lanes : Lane(idxs, i) >= slice.len) => mem' = mem

C4_ScatterOutOfBoundsNoWrite == [][C4_Frame]_vars

C4_Witness ==
    /\ ScatterDone
    /\ slice.len > 0
    /\ \A i \in Lanes : ~InBounds(i)
    /\ \E i \in Lanes : mask[i] /\ Lane(idxs, i) = WrapIdx
    /\ \E i \in Lanes : mask[i] /\ Lane(idxs, i) = slice.len

\* C5: after scatter_select every slice index that no surviving lane targets
\* holds the value it had before the call; so does the index of a masked-off
\* lane unless another lane with a true mask bit and the same in-bounds index
\* writes it.
C5_ScatterMaskExclusion ==
    (pc = "done" /\ op = "scatter_select") =>
        /\ \A k \in 0 .. (slice.len - 1) :
              Targeting(k) = {} => SliceAt(mem, slice, k) = SliceAt(InitMem, slice, k)
        /\ \A i \in Lanes :
              (/\ ~mask[i]
               /\ InBounds(i)
               /\ ~\E j \in Lanes : mask[j] /\ Lane(idxs, j) = Lane(idxs, i))
              => SliceAt(mem, slice, Lane(idxs, i)) = SliceAt(InitMem, slice, Lane(idxs, i))

C5_Witness ==
    /\ pc = "done"
    /\ op = "scatter_select"
    /\ mem # InitMem
    /\ \E i \in Lanes :
          /\ ~mask[i]
          /\ InBounds(i)
          /\ Targeting(Lane(idxs, i)) = {}
          /\ Lane(vals, i) # SliceAt(InitMem, slice, Lane(idxs, i))

\* C6: gather_select and scatter_select form an address for every lane by
\* wrapping arithmetic, dereference exactly the addresses of the lanes whose
\* effective-mask bit (caller mask AND idxs[i] < len) is true, and so
\* dereference only addresses inside the slice.
C6_DerefInsideSlice ==
    (pc = "done" /\ op \in (GatherOps \cup ScatterOps)) =>
        /\ DOMAIN ptrs = Lanes
        /\ \A i \in Lanes :
              ptrs[i] = (slice.base + Lane(idxs, i) * ElemSize) % UsizeMod
        /\ derefs = {ptrs[i] : i \in {j \in Lanes : Surviving(j)}}
        /\ derefs \subseteq SliceAddrs(slice)

C6_Witness ==
    /\ pc = "done"
    /\ op \in {"gather_select", "scatter_select"}
    /\ \E i, j \in Lanes :
          /\ mask[i] /\ Lane(idxs, i) = WrapIdx
          /\ ptrs[i] \in SliceAddrs(slice) /\ ptrs[i] \notin derefs
          /\ mask[j] /\ Lane(idxs, j) = UsizeMax

\* C7: in scatter_select the effective mask is complete, computed through the
\* read-only view of the slice (its length), before the mutable base address
\* is derived, and the read-only view is not used after that.
EffectiveMask ==
    Simd([i \in Lanes |-> IF mask[i] /\ Lane(idxs, i) < slice.len THEN -1 ELSE 0])

C7_MaskBeforeMutPtr ==
    (op \in ScatterOps) =>
        /\ \A i, j \in DOMAIN events :
              (events[i] = "as_mut_ptr" /\ events[j] = "len") => j < i
        /\ (\E i \in DOMAIN events : events[i] = "as_mut_ptr") =>
              /\ emask = EffectiveMask
              /\ \E j \in DOMAIN events : events[j] = "len"
        /\ pc = "done" => events = <<"len", "as_mut_ptr", "store">>

C7_Witness ==
    /\ op = "scatter_select"
    /\ pc = "scatter_select"
    /\ base_ptr # NoVal
    /\ mem = InitMem
    /\ \E i \in Lanes : Lane(emask, i) # 0

\* C8: every gather and scatter call on every slice, mask and index vector
\* runs to completion: no step is stuck, no address outside the slice is
\* dereferenced, and each lane that is out of bounds or masked off yields the
\* fallback value (gather) or writes nothing (scatter).
C8_Total ==
    /\ ~ub
    /\ (pc # "done" => ENABLED Next)
    /\ ip <= Len(scatter_select_body)
    /\ (pc = "done" /\ op \in GatherOps) =>
          \A i \in Lanes : ~Surviving(i) => Lane(result, i) = Lane(or, i)
    /\ ScatterDone =>
          \A c \in Cells :
              mem[c] # InitMem[c] =>
                  \E i \in Lanes :
                      Surviving(i) /\ c = (slice.base \div ElemSize) + Lane(idxs, i)

C8_Witness ==
    /\ pc = "done"
    /\ op \in ScatterOps
    /\ slice.len = 0
    /\ \E i, j \in Lanes : Lane(idxs, i) = UsizeMax /\ Lane(idxs, j) = 0

\* C9: from_array(a).to_array() = a, lane for lane.
C9_ArrayRoundTrip ==
    (pc = "done" /\ op = "to_array") =>
        /\ DOMAIN out = Lanes
        /\ \A i \in Lanes : out[i] = arr[i]

C9_Witness ==
    /\ pc = "done"
    /\ op = "to_array"
    /\ \E i, j \in Lanes : arr[i] # arr[j]

\* C10: gather_select(s, mask, idxs, or) after v.scatter_select(s, mask, idxs)
\* returns, in a surviving lane i, v[j] for the highest-numbered surviving lane j
\* with idxs[j] = idxs[i], and or[i] in every other lane.
C10_ScatterThenGather ==
    (pc = "done" /\ op = "gather_back") =>
        \A i \in Lanes :
            Lane(result, i) = IF Surviving(i)
                              THEN Lane(vals, MaxOf(Targeting(Lane(idxs, i))))
                              ELSE Lane(or, i)

C10_Witness ==
    /\ pc = "done"
    /\ op = "gather_back"
    /\ \E i, j \in Lanes :
          /\ i < j
          /\ Surviving(i) /\ Surviving(j)
          /\ Lane(idxs, i) # Lane(idxs, j)
          /\ Lane(vals, i) # Lane(vals, j)
    /\ \E i \in Lanes : Lane(or, i) # Lane(vals, i)
====
